---- MODULE Spec2Model ----
(***************************************************************************)
(* Model of referencing/jsonschema.py: the per-dialect extraction          *)
(* functions (identifier, subresources, anchors), the six Specification    *)
(* records, the dialect catalog and specification_with.                    *)
(*                                                                         *)
(* JSON / Python values are tagged records [kind, val]:                    *)
(*   null (Python None), boolean, number, string (a sequence of            *)
(*   one-character strings), array (a sequence of values) and object       *)
(*   (a sequence of <<key, value>> pairs, in the mapping's order).         *)
(* The outcome of a call is Return(v) or Raise(exc).                       *)
(***************************************************************************)
EXTENDS Integers, Sequences, FiniteSets, TLC

VARIABLES dialect_id, default, contents, specification, op, ret

vars == <<dialect_id, default, contents, specification, op, ret>>

\* Largest number of keys of a generated schema node.
MaxKeys == 2

-----------------------------------------------------------------------------
\* Values

None == [kind |-> "null"]

Bool(b) == [kind |-> "boolean", val |-> b]

Num(n) == [kind |-> "number", val |-> n]

Str(s) == [kind |-> "string", val |-> s]

Arr(s) == [kind |-> "array", val |-> s]

Obj(pairs) == [kind |-> "object", val |-> pairs]

Return(v) == [kind |-> "return", val |-> v]

Raise(e) == [kind |-> "raise", exc |-> e]

\* isinstance(contents, bool)
IsBool(v) == v.kind = "boolean"

\* key in mapping
Has(o, k) == \E i \in 1..Len(o.val) : o.val[i][1] = k

\* mapping.get(key, dflt) / mapping[key]
Get(o, k, dflt) ==
    IF Has(o, k)
    THEN o.val[CHOOSE i \in 1..Len(o.val) : o.val[i][1] = k][2]
    ELSE dflt

\* mapping.values(), in the mapping's order
Values(o) == [i \in 1..Len(o.val) |-> o.val[i][2]]

\* iterating a mapping yields its keys (the keys used here are one character)
KeysOf(o) == [i \in 1..Len(o.val) |-> Str(<<o.val[i][1]>>)]

\* iterating a string yields its characters
CharsOf(s) == [i \in 1..Len(s.val) |-> Str(<<s.val[i]>>)]

\* str.startswith(prefix) for a one-character prefix
startswith(s, c) == Len(s.val) >= 1 /\ s.val[1] = c

\* s[1:]
Slice1(s) == Str(SubSeq(s.val, 2, Len(s.val)))

\* Resource(contents=..., specification=...), as built by
\* Specification.create_resource
create_resource(spec, c) == [contents |-> c, specification |-> spec.name]

Anchor(n, r) == [name |-> n, resource |-> r]

-----------------------------------------------------------------------------
\* Identifier extraction

_dollar_id(c) ==
    IF IsBool(c) THEN Return(None)
    ELSE Return(Get(c, "$id", None))

\* _legacy_dollar_id without its isinstance(contents, bool) test
_legacy_dollar_id_no_bool(c) ==
    IF IsBool(c) THEN Raise("TypeError")
    ELSE IF Has(c, "$ref") THEN Return(None)
    ELSE LET id == Get(c, "$id", None) IN
         IF id = None THEN Return(None)
         ELSE IF id.kind # "string" THEN Raise("AttributeError")
         ELSE IF ~startswith(id, "#") THEN Return(id)
         ELSE Return(None)

_legacy_dollar_id(c) ==
    IF IsBool(c) \/ Has(c, "$ref") THEN Return(None)
    ELSE LET id == Get(c, "$id", None) IN
         IF id = None THEN Return(None)
         ELSE IF id.kind # "string" THEN Raise("AttributeError")
         ELSE IF ~startswith(id, "#") THEN Return(id)
         ELSE Return(None)

\* _legacy_id without its "$ref" in contents test
_legacy_id_ignores_ref(c) ==
    IF IsBool(c) THEN Raise("TypeError")
    ELSE LET id == Get(c, "id", None) IN
         IF id = None THEN Return(None)
         ELSE IF id.kind # "string" THEN Raise("AttributeError")
         ELSE IF ~startswith(id, "#") THEN Return(id)
         ELSE Return(None)

_legacy_id(c) ==
    IF IsBool(c) THEN Raise("TypeError")
    ELSE IF Has(c, "$ref") THEN Return(None)
    ELSE LET id == Get(c, "id", None) IN
         IF id = None THEN Return(None)
         ELSE IF id.kind # "string" THEN Raise("AttributeError")
         ELSE IF ~startswith(id, "#") THEN Return(id)
         ELSE Return(None)

-----------------------------------------------------------------------------
\* Anchor extraction

\* _anchor_2019 testing "if not anchor" instead of "if anchor is None"
_anchor_2019_truthy(spec, c) ==
    IF IsBool(c) THEN Return(<<>>)
    ELSE LET anchor == Get(c, "$anchor", None) IN
         IF anchor = None \/ anchor = Str(<<>>) THEN Return(<<>>)
         ELSE Return(<<Anchor(anchor, create_resource(spec, c))>>)

_anchor_2019(spec, c) ==
    IF IsBool(c) THEN Return(<<>>)
    ELSE LET anchor == Get(c, "$anchor", None) IN
         IF anchor = None THEN Return(<<>>)
         ELSE Return(<<Anchor(anchor, create_resource(spec, c))>>)

\* _legacy_anchor_in_dollar_id naming the anchor id instead of id[1:]
_legacy_anchor_in_dollar_id_keeps_hash(spec, c) ==
    IF IsBool(c) THEN Return(<<>>)
    ELSE LET id == Get(c, "$id", Str(<<>>)) IN
         IF id.kind # "string" THEN Raise("AttributeError")
         ELSE IF ~startswith(id, "#") THEN Return(<<>>)
         ELSE Return(<<Anchor(id, create_resource(spec, c))>>)

_legacy_anchor_in_dollar_id(spec, c) ==
    IF IsBool(c) THEN Return(<<>>)
    ELSE LET id == Get(c, "$id", Str(<<>>)) IN
         IF id.kind # "string" THEN Raise("AttributeError")
         ELSE IF ~startswith(id, "#") THEN Return(<<>>)
         ELSE Return(<<Anchor(Slice1(id), create_resource(spec, c))>>)

\* _legacy_anchor_in_id with the "$ref" in contents test of _legacy_id
_legacy_anchor_in_id_checks_ref(spec, c) ==
    IF IsBool(c) THEN Raise("AttributeError")
    ELSE IF Has(c, "$ref") THEN Return(<<>>)
    ELSE LET id == Get(c, "id", Str(<<>>)) IN
         IF id.kind # "string" THEN Raise("AttributeError")
         ELSE IF ~startswith(id, "#") THEN Return(<<>>)
         ELSE Return(<<Anchor(Slice1(id), create_resource(spec, c))>>)

_legacy_anchor_in_id(spec, c) ==
    IF IsBool(c) THEN Raise("AttributeError")
    ELSE LET id == Get(c, "id", Str(<<>>)) IN
         IF id.kind # "string" THEN Raise("AttributeError")
         ELSE IF ~startswith(id, "#") THEN Return(<<>>)
         ELSE Return(<<Anchor(Slice1(id), create_resource(spec, c))>>)

-----------------------------------------------------------------------------
\* Subresource enumeration

\* The items one in_value keyword contributes: yield contents[each]
YieldValue(c, each) == Return(<<Get(c, each, None)>>)

\* The items one in_subarray keyword contributes: yield from contents[each]
YieldSubarray(c, each) ==
    LET v == Get(c, each, None) IN
    CASE v.kind = "array" -> Return(v.val)
      [] v.kind = "object" -> Return(KeysOf(v))
      [] v.kind = "string" -> Return(CharsOf(v))
      [] OTHER -> Raise("TypeError")

\* The items one in_subvalues keyword contributes:
\* yield from contents[each].values()
YieldSubvalues(c, each) ==
    LET v == Get(c, each, None) IN
    IF v.kind = "object" THEN Return(Values(v)) ELSE Raise("AttributeError")

\* Consuming the generator: the items in order, or the first error raised.
RECURSIVE Drain(_)
Drain(outs) ==
    IF Len(outs) = 0 THEN Return(<<>>)
    ELSE IF Head(outs).kind = "raise" THEN Head(outs)
    ELSE LET rest == Drain(Tail(outs)) IN
         IF rest.kind = "raise" THEN rest
         ELSE Return(Head(outs).val \o rest.val)

\* subresources_of visiting in_subvalues before in_subarray
subresources_of_subvalues_first(closure, c, order) ==
    IF closure.fn = "lambda" THEN Return(<<>>)
    ELSE IF IsBool(c) THEN Return(<<>>)
    ELSE Drain(
        [i \in 1..Len(order.in_value) |->
            IF Has(c, order.in_value[i])
            THEN YieldValue(c, order.in_value[i]) ELSE Return(<<>>)]
        \o
        [i \in 1..Len(order.in_subvalues) |->
            IF Has(c, order.in_subvalues[i])
            THEN YieldSubvalues(c, order.in_subvalues[i]) ELSE Return(<<>>)]
        \o
        [i \in 1..Len(order.in_subarray) |->
            IF Has(c, order.in_subarray[i])
            THEN YieldSubarray(c, order.in_subarray[i]) ELSE Return(<<>>)])

\* The closure built by _subresources_of.  Python leaves the iteration order
\* of the three keyword sets unspecified; order gives, for each set, the
\* order in which its keywords present in contents are visited.
subresources_of(closure, c, order) ==
    IF closure.fn = "lambda" THEN Return(<<>>)
    ELSE IF IsBool(c) THEN Return(<<>>)
    ELSE Drain(
        [i \in 1..Len(order.in_value) |->
            IF Has(c, order.in_value[i])
            THEN YieldValue(c, order.in_value[i]) ELSE Return(<<>>)]
        \o
        [i \in 1..Len(order.in_subarray) |->
            IF Has(c, order.in_subarray[i])
            THEN YieldSubarray(c, order.in_subarray[i]) ELSE Return(<<>>)]
        \o
        [i \in 1..Len(order.in_subvalues) |->
            IF Has(c, order.in_subvalues[i])
            THEN YieldSubvalues(c, order.in_subvalues[i]) ELSE Return(<<>>)])

_subresources_of(in_value, in_subvalues, in_subarray) ==
    [fn |-> "subresources_of", in_value |-> in_value,
     in_subvalues |-> in_subvalues, in_subarray |-> in_subarray]

-----------------------------------------------------------------------------
\* The six Specification records

DRAFT202012 ==
    [name |-> "draft2020-12",
     id_of |-> "_dollar_id",
     subresources_of |->
        [fn |-> "lambda", in_value |-> {}, in_subvalues |-> {},
         in_subarray |-> {}],
     anchors_in |-> "lambda"]

DRAFT201909 ==
    [name |-> "draft2019-09",
     id_of |-> "_dollar_id",
     subresources_of |-> _subresources_of(
        {"additionalProperties", "if", "then", "else", "not"},
        {"$defs", "properties"},
        {"allOf", "anyOf", "oneOf"}),
     anchors_in |-> "_anchor_2019"]

DRAFT7 ==
    [name |-> "draft-07",
     id_of |-> "_legacy_dollar_id",
     subresources_of |-> _subresources_of(
        {"additionalProperties", "if", "then", "else", "not"},
        {"definitions", "properties"},
        {"allOf", "anyOf", "oneOf"}),
     anchors_in |-> "_legacy_anchor_in_dollar_id"]

\* DRAFT6 with the in_value set of DRAFT7
DRAFT6_with_if ==
    [name |-> "draft-06",
     id_of |-> "_legacy_dollar_id",
     subresources_of |-> _subresources_of(
        {"additionalProperties", "if", "then", "else", "not"},
        {"definitions", "properties"},
        {"allOf", "anyOf", "oneOf"}),
     anchors_in |-> "_legacy_anchor_in_dollar_id"]

DRAFT6 ==
    [name |-> "draft-06",
     id_of |-> "_legacy_dollar_id",
     subresources_of |-> _subresources_of(
        {"additionalProperties", "not"},
        {"definitions", "properties"},
        {"allOf", "anyOf", "oneOf"}),
     anchors_in |-> "_legacy_anchor_in_dollar_id"]

DRAFT4 ==
    [name |-> "draft-04",
     id_of |-> "_legacy_id",
     subresources_of |-> _subresources_of(
        {"additionalProperties", "not"},
        {"definitions", "properties"},
        {"allOf", "anyOf", "oneOf"}),
     anchors_in |-> "_legacy_anchor_in_id"]

DRAFT3 ==
    [name |-> "draft-03",
     id_of |-> "_legacy_id",
     subresources_of |-> _subresources_of(
        {"additionalProperties"},
        {"definitions", "properties"},
        {"extends"}),
     anchors_in |-> "_legacy_anchor_in_id"]

\* specification.id_of(contents)
id_of(spec, c) ==
    CASE spec.id_of = "_dollar_id" -> _dollar_id(c)
      [] spec.id_of = "_legacy_dollar_id" -> _legacy_dollar_id(c)
      [] spec.id_of = "_legacy_id" -> _legacy_id(c)

\* specification.anchors_in(specification, contents)
anchors_in(spec, c) ==
    CASE spec.anchors_in = "lambda" -> Return(<<>>)
      [] spec.anchors_in = "_anchor_2019" -> _anchor_2019(spec, c)
      [] spec.anchors_in = "_legacy_anchor_in_dollar_id" ->
            _legacy_anchor_in_dollar_id(spec, c)
      [] spec.anchors_in = "_legacy_anchor_in_id" ->
            _legacy_anchor_in_id(spec, c)

-----------------------------------------------------------------------------
\* The dialect catalog and its lookup

\* Resource.opaque(specification)
opaque(spec) == [contents |-> spec, specification |-> "opaque"]

_SPECIFICATIONS ==
    ("https://json-schema.org/draft/2020-12/schema" :> opaque(DRAFT202012))
    @@ ("https://json-schema.org/draft/2019-09/schema" :> opaque(DRAFT201909))
    @@ ("http://json-schema.org/draft-07/schema#" :> opaque(DRAFT7))
    @@ ("http://json-schema.org/draft-06/schema#" :> opaque(DRAFT6))
    @@ ("http://json-schema.org/draft-04/schema#" :> opaque(DRAFT4))
    @@ ("http://json-schema.org/draft-03/schema#" :> opaque(DRAFT3))

\* Registry.get(uri): the resource stored under exactly that key, else None
Registry_get(registry, uri) ==
    IF uri \in DOMAIN registry THEN registry[uri] ELSE None

UnknownDialect(uri) == [kind |-> "raise", exc |-> "UnknownDialect", uri |-> uri]

\* specification_with preferring a supplied default to the catalog
specification_with_default_first(id, dflt) ==
    LET resource == Registry_get(_SPECIFICATIONS, id) IN
    IF dflt # None THEN Return(dflt)
    ELSE IF resource # None THEN Return(resource.contents)
    ELSE UnknownDialect(id)

\* specification_with ignoring its default
specification_with_no_default(id, dflt) ==
    LET resource == Registry_get(_SPECIFICATIONS, id) IN
    IF resource # None THEN Return(resource.contents)
    ELSE UnknownDialect(id)

specification_with(id, dflt) ==
    LET resource == Registry_get(_SPECIFICATIONS, id) IN
    IF resource # None THEN Return(resource.contents)
    ELSE IF dflt = None THEN UnknownDialect(id)
    ELSE Return(dflt)

-----------------------------------------------------------------------------
\* Inputs

A == Obj(<< <<"a", Num(1)>> >>)

B == Obj(<< <<"b", Num(2)>> >>)

C == Obj(<< <<"c", Num(3)>> >>)

\* Keywords of a generated node, in the order the node lists them.
KeyList ==
    <<"$id", "id", "$ref", "$anchor",
      "additionalProperties", "if", "then", "else", "not",
      "allOf", "anyOf", "oneOf", "extends",
      "$defs", "definitions", "properties">>

\* Values an identifier-like keyword may hold: "", "#", "#a", "a", "a#",
\* and the non-strings 1 and null.
IdValues ==
    {Str(<<>>), Str(<<"#">>), Str(<<"#", "a">>), Str(<<"a">>),
     Str(<<"a", "#">>), Num(1), None}

\* Values of a keyword that holds one schema.
SchemaValues == {A, Bool(FALSE)}

\* Values of a keyword that holds an array of schemas, and two values of
\* another shape: a single schema object, and a boolean.
ArrayValues == {Arr(<<A, B>>), Arr(<<B, A>>), A, Bool(TRUE)}

\* Values of a keyword that holds a mapping of schemas, and an array.
MappingValues ==
    {Obj(<< <<"x", C>> >>), Obj(<< <<"x", C>>, <<"y", A>> >>),
     Obj(<< <<"y", A>>, <<"x", C>> >>), Arr(<<A>>)}

ValuesOf(k) ==
    CASE k \in {"$id", "id", "$anchor"} -> IdValues
      [] k = "$ref" -> {Str(<<"#">>)}
      [] k \in {"additionalProperties", "if", "then", "else", "not"} ->
            SchemaValues
      [] k \in {"allOf", "anyOf", "oneOf", "extends"} -> ArrayValues
      [] k \in {"$defs", "definitions", "properties"} -> MappingValues

\* The key/value lists over KeyList[i..] with at most n keys.
RECURSIVE Pairs(_, _)
Pairs(i, n) ==
    IF i > Len(KeyList) \/ n = 0 THEN {<<>>}
    ELSE Pairs(i + 1, n)
         \cup {<< <<KeyList[i], v>> >> \o rest :
                 v \in ValuesOf(KeyList[i]), rest \in Pairs(i + 1, n - 1)}

ObjectNodes == {Obj(p) : p \in Pairs(1, MaxKeys)}

Nodes == {Bool(TRUE), Bool(FALSE)} \cup ObjectNodes

CatalogURIs == DOMAIN _SPECIFICATIONS

\* URIs that differ from a catalog key by scheme, trailing slash or
\* trailing '#', and two unrelated strings.
OtherURIs ==
    {"http://json-schema.org/draft/2020-12/schema",
     "https://json-schema.org/draft/2020-12/schema/",
     "https://json-schema.org/draft/2020-12/schema#",
     "http://json-schema.org/draft/2019-09/schema",
     "https://json-schema.org/draft/2019-09/schema/",
     "https://json-schema.org/draft/2019-09/schema#",
     "https://json-schema.org/draft-07/schema#",
     "http://json-schema.org/draft-07/schema#/",
     "http://json-schema.org/draft-07/schema",
     "https://json-schema.org/draft-06/schema#",
     "http://json-schema.org/draft-06/schema#/",
     "http://json-schema.org/draft-06/schema",
     "https://json-schema.org/draft-04/schema#",
     "http://json-schema.org/draft-04/schema#/",
     "http://json-schema.org/draft-04/schema",
     "https://json-schema.org/draft-03/schema#",
     "http://json-schema.org/draft-03/schema#/",
     "http://json-schema.org/draft-03/schema",
     "unknown-uri", ""}

URIs == CatalogURIs \cup OtherURIs

Specifications == {DRAFT202012, DRAFT201909, DRAFT7, DRAFT6, DRAFT4, DRAFT3}

Defaults == {None} \cup Specifications

\* The orders in which a set can be iterated.
Perms(S) ==
    {f \in [1..Cardinality(S) -> S] : \A i, j \in DOMAIN f : f[i] = f[j] => i = j}

KeySet(c) == IF IsBool(c) THEN {} ELSE {c.val[i][1] : i \in 1..Len(c.val)}

Orders(closure, c) ==
    [in_value : Perms(closure.in_value \cap KeySet(c)),
     in_subarray : Perms(closure.in_subarray \cap KeySet(c)),
     in_subvalues : Perms(closure.in_subvalues \cap KeySet(c))]

-----------------------------------------------------------------------------
\* The caller: it looks the dialect of its document up, then walks the
\* document with the three functions of the Specification it obtained.

\* Any URI and any default, for a boolean document.
InitLookup ==
    /\ dialect_id \in URIs
    /\ default \in Defaults
    /\ contents \in {Bool(TRUE), Bool(FALSE)}

\* A catalog URI and no default, for any document.
InitWalk ==
    /\ dialect_id \in CatalogURIs
    /\ default = None
    /\ contents \in Nodes

Init ==
    /\ InitLookup \/ InitWalk
    /\ specification = None
    /\ op = "start"
    /\ ret = None

SpecificationWith ==
    /\ op = "start"
    /\ op' = "specification_with"
    /\ ret' = specification_with(dialect_id, default)
    /\ specification' = IF ret'.kind = "return" THEN ret'.val ELSE None
    /\ UNCHANGED <<dialect_id, default, contents>>

IdOf ==
    /\ specification # None
    /\ op' = "id_of"
    /\ ret' = id_of(specification, contents)
    /\ UNCHANGED <<dialect_id, default, contents, specification>>

SubresourcesOf ==
    /\ specification # None
    /\ \E order \in Orders(specification.subresources_of, contents) :
          ret' = subresources_of(specification.subresources_of, contents, order)
    /\ op' = "subresources_of"
    /\ UNCHANGED <<dialect_id, default, contents, specification>>

AnchorsIn ==
    /\ specification # None
    /\ op' = "anchors_in"
    /\ ret' = anchors_in(specification, contents)
    /\ UNCHANGED <<dialect_id, default, contents, specification>>

Next == SpecificationWith \/ IdOf \/ SubresourcesOf \/ AnchorsIn

Spec == Init /\ [][Next]_vars

-----------------------------------------------------------------------------
\* Properties

IsObject(c) == c.kind = "object"

Extraction == {"id_of", "subresources_of", "anchors_in"}

\* The dialect label expected under each catalog URI.
DialectLabel ==
    ("https://json-schema.org/draft/2020-12/schema" :> "draft2020-12")
    @@ ("https://json-schema.org/draft/2019-09/schema" :> "draft2019-09")
    @@ ("http://json-schema.org/draft-07/schema#" :> "draft-07")
    @@ ("http://json-schema.org/draft-06/schema#" :> "draft-06")
    @@ ("http://json-schema.org/draft-04/schema#" :> "draft-04")
    @@ ("http://json-schema.org/draft-03/schema#" :> "draft-03")

Legacy == {"draft-07", "draft-06", "draft-04", "draft-03"}

\* The keyword a legacy dialect reads its identifier and anchor from.
IdKeyword(name) == IF name \in {"draft-07", "draft-06"} THEN "$id" ELSE "id"

Keywords(v, a, m) == [in_value |-> v, in_subarray |-> a, in_subvalues |-> m]

\* The keyword table of the dialects.
Table ==
    ("draft2020-12" :> Keywords({}, {}, {}))
    @@ ("draft2019-09" :>
          Keywords({"additionalProperties", "if", "then", "else", "not"},
                   {"allOf", "anyOf", "oneOf"}, {"$defs", "properties"}))
    @@ ("draft-07" :>
          Keywords({"additionalProperties", "if", "then", "else", "not"},
                   {"allOf", "anyOf", "oneOf"}, {"definitions", "properties"}))
    @@ ("draft-06" :>
          Keywords({"additionalProperties", "not"},
                   {"allOf", "anyOf", "oneOf"}, {"definitions", "properties"}))
    @@ ("draft-04" :>
          Keywords({"additionalProperties", "not"},
                   {"allOf", "anyOf", "oneOf"}, {"definitions", "properties"}))
    @@ ("draft-03" :>
          Keywords({"additionalProperties"},
                   {"extends"}, {"definitions", "properties"}))

\* Every in_subarray keyword of the dialect that the node has holds an array
\* and every in_subvalues keyword it has holds a mapping.
SubschemasShaped(name, c) ==
    /\ \A k \in Table[name].in_subarray \cap KeySet(c) :
          Get(c, k, None).kind = "array"
    /\ \A k \in Table[name].in_subvalues \cap KeySet(c) :
          Get(c, k, None).kind = "object"

\* The keyword the dialect's identifier and anchor functions call string
\* methods on is a string when the node has it.
IdShaped(name, c) ==
    name \in Legacy =>
        (Has(c, IdKeyword(name)) =>
            Get(c, IdKeyword(name), None).kind = "string")

StartsWithHash(v) == Len(v.val) > 0 /\ Head(v.val) = "#"

RECURSIVE Flatten(_)
Flatten(seqs) ==
    IF Len(seqs) = 0 THEN <<>> ELSE Head(seqs) \o Flatten(Tail(seqs))

\* s contains a, and after it d, as contiguous runs.
Precedes(s, a, d) ==
    \E i \in 1..(Len(s) + 1), j \in 1..(Len(s) + 1) :
        /\ i + Len(a) <= j
        /\ j + Len(d) <= Len(s) + 1
        /\ SubSeq(s, i, i + Len(a) - 1) = a
        /\ SubSeq(s, j, j + Len(d) - 1) = d

\* The node without one key.
Without(c, k) == Obj(SelectSeq(c.val, LAMBDA p : p[1] # k))

\* C1: for each of the six catalog URIs specification_with returns the
\* Specification registered under it, named by that dialect's label; it
\* never raises, and a different default is never returned.
C1_CatalogLookup ==
    (op = "specification_with" /\ dialect_id \in DOMAIN DialectLabel) =>
        /\ ret.kind = "return"
        /\ ret.val.name = DialectLabel[dialect_id]
        /\ ret.val = _SPECIFICATIONS[dialect_id].contents
        /\ (default # None /\ default.name # DialectLabel[dialect_id])
              => ret.val # default

C1_Witness ==
    /\ op = "specification_with"
    /\ dialect_id = "http://json-schema.org/draft-07/schema#"
    /\ default = DRAFT202012
    /\ ret = Return(DRAFT7)

\* C2: for a URI that is not one of the six catalog keys, specification_with
\* raises UnknownDialect carrying that URI when no default is given, and
\* returns the default when one is given.
C2_UnknownLookup ==
    (op = "specification_with" /\ dialect_id \notin DOMAIN DialectLabel) =>
        IF default = None
        THEN ret = [kind |-> "raise", exc |-> "UnknownDialect",
                    uri |-> dialect_id]
        ELSE ret = Return(default)

C2_Witness ==
    /\ op = "specification_with"
    /\ dialect_id = "http://json-schema.org/draft-07/schema"
    /\ default = None
    /\ ret.kind = "raise"
    /\ ret.uri = "http://json-schema.org/draft-07/schema"

C4_LegacyIdentifier ==
    (/\ op = "id_of"
     /\ specification.name \in Legacy
     /\ IsObject(contents)
     /\ IdShaped(specification.name, contents)) =>
        LET k == IdKeyword(specification.name)
            v == Get(contents, k, None)
        IN  IF Has(contents, k) /\ ~Has(contents, "$ref") /\ ~StartsWithHash(v)
            THEN ret = Return(v)
            ELSE ret = Return(None)

C4_Witness ==
    /\ op = "id_of"
    /\ specification.name = "draft-04"
    /\ contents = Obj(<< <<"id", Str(<<"a", "#">>)>> >>)
    /\ ret = Return(Str(<<"a", "#">>))

C6_LegacyAnchor ==
    (/\ op = "anchors_in"
     /\ specification.name \in Legacy
     /\ IsObject(contents)
     /\ IdShaped(specification.name, contents)) =>
        LET k == IdKeyword(specification.name)
            v == Get(contents, k, None)
        IN  IF Has(contents, k) /\ StartsWithHash(v)
            THEN ret = Return(<<[name |-> Str(Tail(v.val)),
                                 resource |->
                                    [contents |-> contents,
                                     specification |-> specification.name]]>>)
            ELSE ret = Return(<<>>)

C6_Witness ==
    /\ op = "anchors_in"
    /\ specification.name = "draft-06"
    /\ contents = Obj(<< <<"$id", Str(<<"#">>)>> >>)
    /\ ret.kind = "return"
    /\ Len(ret.val) = 1
    /\ ret.val[1].name = Str(<<>>)

C8_Original ==
    (/\ op = "subresources_of"
     /\ specification.name = "draft2019-09"
     /\ IsObject(contents)
     /\ Get(contents, "allOf", None).kind = "array"
     /\ Get(contents, "definitions", None).kind = "object"
     /\ SubschemasShaped("draft2019-09", contents)) =>
        /\ ret.kind = "return"
        /\ Precedes(ret.val, Get(contents, "allOf", None).val,
                    Values(Get(contents, "definitions", None)))

\* C8 amended: under 2019-09, for a node with an allOf array and a $defs
\* mapping, subresources_of produces the allOf elements in array order
\* followed by the values of the $defs mapping; a definitions mapping
\* contributes nothing, so a node with just allOf and definitions produces
\* the allOf elements only.
C8_AllOfThenDefs ==
    (/\ op = "subresources_of"
     /\ specification.name = "draft2019-09"
     /\ IsObject(contents)
     /\ Get(contents, "allOf", None).kind = "array"
     /\ SubschemasShaped("draft2019-09", contents)) =>
        /\ ret.kind = "return"
        /\ Get(contents, "$defs", None).kind = "object" =>
              Precedes(ret.val, Get(contents, "allOf", None).val,
                       Values(Get(contents, "$defs", None)))
        /\ KeySet(contents) = {"allOf", "definitions"} =>
              ret.val = Get(contents, "allOf", None).val

C8_Witness ==
    /\ op = "subresources_of"
    /\ specification.name = "draft2019-09"
    /\ contents = Obj(<< <<"allOf", Arr(<<A, B>>)>>,
                         <<"$defs", Obj(<< <<"x", C>> >>)>> >>)
    /\ ret = Return(<<A, B, C>>)

\* C9: for an object node, every element subresources_of produces is an
\* object schema embedded directly in the node, never a boolean and never a
\* key or other non-schema value.
C9_OnlyObjectSchemas ==
    (/\ op = "subresources_of"
     /\ IsObject(contents)
     /\ ret.kind = "return") =>
        \A i \in 1..Len(ret.val) :
            /\ ret.val[i].kind = "object"
            /\ \E j \in 1..Len(contents.val) :
                  LET v == contents.val[j][2] IN
                  \/ v = ret.val[i]
                  \/ /\ v.kind = "array"
                     /\ \E n \in 1..Len(v.val) : v.val[n] = ret.val[i]
                  \/ /\ v.kind = "object"
                     /\ \E n \in 1..Len(v.val) : v.val[n][2] = ret.val[i]

\* The names of the anchors of an outcome (nothing when it raised).
AnchorNames(r) ==
    IF r.kind = "return" THEN [i \in 1..Len(r.val) |-> r.val[i].name] ELSE <<>>

\* C10: under a legacy dialect, what anchors_in yields does not depend on
\* $ref: a node whose id keyword starts with '#' and that has a $ref still
\* yields its anchor although identifier_of returns nothing for it; and
\* identifier_of returning a value and anchors_in yielding an anchor never
\* both hold.
C10_AnchorIgnoresRef ==
    (/\ op = "anchors_in"
     /\ specification.name \in Legacy
     /\ IsObject(contents)
     /\ IdShaped(specification.name, contents)) =>
        LET v == Get(contents, IdKeyword(specification.name), None)
            other == anchors_in(specification, Without(contents, "$ref"))
            id == id_of(specification, contents)
        IN  /\ ret.kind = other.kind
            /\ AnchorNames(ret) = AnchorNames(other)
            /\ (Has(contents, "$ref")
                /\ Has(contents, IdKeyword(specification.name))
                /\ StartsWithHash(v)) =>
                    /\ ret.kind = "return"
                    /\ Len(ret.val) = 1
                    /\ id = Return(None)
            /\ ~(id.kind = "return" /\ id.val # None
                 /\ ret.kind = "return" /\ Len(ret.val) > 0)

C10_Witness ==
    /\ op = "anchors_in"
    /\ specification.name = "draft-04"
    /\ contents = Obj(<< <<"id", Str(<<"#", "a">>)>>, <<"$ref", Str(<<"#">>)>> >>)
    /\ ret.kind = "return"
    /\ Len(ret.val) = 1
    /\ ret.val[1].name = Str(<<"a">>)

====
